---- MODULE Spec2Model ----
(***************************************************************************)
(* Model of tc_decorator.py: the decorators tc / common / options that     *)
(* accumulate layers on a function object, and the decorator test          *)
(* (TestExpander) that expands them into named units published into the    *)
(* enclosing scope.                                                        *)
(*                                                                         *)
(* A Python object is modelled by the function from its attribute names to *)
(* their values (hasattr is membership in DOMAIN), a dict by the function  *)
(* from its keys, a list or tuple by a sequence, a str by a TLA+ string    *)
(* (a description, which the code scans character by character, by the     *)
(* sequence of its characters).                                            *)
(***************************************************************************)
EXTENDS Integers, Sequences, FiniteSets, TLC

VARIABLES
    function,       \* the decorated implementation (its attributes)
    frame_locals,   \* the enclosing scope: name -> published unit
    declared,       \* history: layer objects applied since the last expansion
    last,           \* history: what the last completed expansion consumed and produced
    nexp,           \* number of completed expansions
    nlayers,        \* number of layer decorators applied so far
    raised          \* the exception that ended the declarations, if any

vars == <<function, frame_locals, declared, last, nexp, nlayers, raised>>

(***************************************************************************)
(* Bounds of the model: at most MaxLayers layer decorators are applied in  *)
(* all, for at most MaxExpansions expansions of the one implementation     *)
(* (layers are declared only while an expansion is still to come).         *)
(***************************************************************************)
MaxLayers == 3
MaxExpansions == 2

(***************************************************************************)
(* Python values.                                                          *)
(***************************************************************************)
None == "None"

EmptyDict == [k \in {} |-> 0]

hasattr(obj, attr) == attr \in DOMAIN obj

setattr(obj, attr, value) == (attr :> value) @@ obj

\* list(iterable), a list comprehension: the elements, evaluated, in order
list(s) == s \o <<>>

delattr_keep(obj, attr) == obj

delattr(obj, attr) == [k \in DOMAIN obj \ {attr} |-> obj[k]]

reversed_identity(s) == s

reversed(s) == [i \in 1..Len(s) |-> s[Len(s) + 1 - i]]

Truthy(s) == s # None /\ s # ""

RECURSIVE Join(_)
Join(cs) == IF cs = <<>> THEN "" ELSE Head(cs) \o Join(Tail(cs))

startswith(s, prefix) ==
    Len(s) >= Len(prefix) /\ SubSeq(s, 1, Len(prefix)) = prefix

Digit(d) == <<"0", "1", "2", "3", "4", "5", "6", "7", "8", "9">>[d + 1]

RECURSIVE Str(_)
Str(n) == IF n < 10 THEN Digit(n) ELSE Str(n \div 10) \o Digit(n % 10)

\* "{index:03d}": zero-padded to a width of at least three
Format03d(n) ==
    IF n < 10 THEN "00" \o Str(n)
    ELSE IF n < 100 THEN "0" \o Str(n)
    ELSE Str(n)

(***************************************************************************)
(* merge_dicts and itertools.product                                       *)
(***************************************************************************)
update(result, dictionary) ==
    [k \in DOMAIN result \cup DOMAIN dictionary |->
        IF k \in DOMAIN dictionary THEN dictionary[k] ELSE result[k]]

RECURSIVE merge_from(_, _)
merge_from(result, dicts) ==
    IF dicts = <<>> THEN result
    ELSE merge_from(update(result, Head(dicts)), Tail(dicts))

merge_dicts_first_wins(dicts) == merge_from(EmptyDict, reversed(dicts))

merge_dicts(dicts) == merge_from(EmptyDict, dicts)

product_step_pool_outer(result, pool) ==
    [i \in 1..(Len(result) * Len(pool)) |->
        result[((i - 1) % Len(result)) + 1]
            \o <<pool[((i - 1) \div Len(result)) + 1]>>]

\* one pool of itertools.product:
\* result = [x + [y] for x in result for y in pool]
product_step(result, pool) ==
    [i \in 1..(Len(result) * Len(pool)) |->
        result[((i - 1) \div Len(pool)) + 1]
            \o <<pool[((i - 1) % Len(pool)) + 1]>>]

RECURSIVE product_from(_, _)
product_from(result, pools) ==
    IF pools = <<>> THEN result
    ELSE product_from(product_step(result, Head(pools)), Tail(pools))

product(pools) == product_from(<< <<>> >>, pools)

(***************************************************************************)
(* Naming and documentation                                                *)
(***************************************************************************)
SafeChars ==
    {"a", "b", "c", "d", "e", "f", "g", "h", "i", "j", "k", "l", "m",
     "n", "o", "p", "q", "r", "s", "t", "u", "v", "w", "x", "y", "z",
     "A", "B", "C", "D", "E", "F", "G", "H", "I", "J", "K", "L", "M",
     "N", "O", "P", "Q", "R", "S", "T", "U", "V", "W", "X", "Y", "Z",
     "0", "1", "2", "3", "4", "5", "6", "7", "8", "9", "_"}

\* re.sub("[^a-zA-Z0-9_]+", "_", s): each maximal run of other characters
\* becomes one underscore
to_safe_name(s) ==
    Join([i \in 1..Len(s) |->
            IF s[i] \in SafeChars THEN s[i]
            ELSE IF i = 1 \/ s[i - 1] \in SafeChars THEN "_"
            ELSE ""])

custom_name_no_index(description, param_num) ==
    (IF ~startswith(description, <<"t", "e", "s", "t">>) THEN "test_" ELSE "")
        \o to_safe_name(description) \o "__case_"

custom_name(description, param_num) ==
    (IF ~startswith(description, <<"t", "e", "s", "t">>) THEN "test_" ELSE "")
        \o to_safe_name(description) \o "__case_" \o Format03d(param_num)

custom_doc(description, nb_testcases, param_num) ==
    Join(description) \o " (" \o Format03d(param_num) \o "/"
        \o Str(nb_testcases) \o ") parameters: " \o ""

(***************************************************************************)
(* The decorated implementation and the layer decorators                   *)
(***************************************************************************)
\* a function object before any decoration
FunctionObject(name, doc) == ("__name__" :> name) @@ ("__doc__" :> doc)

\* TestCases.__init__: the keyword arguments, plus the positional ones under
\* the reserved key
TestCases__init__(args, kwargs) ==
    update(kwargs, "__positionals" :> args)

TestCases__call__(parameters, f) ==
    LET g == IF ~hasattr(f, "tc_test_cases")
             THEN setattr(f, "tc_test_cases", <<>>) ELSE f
    IN  setattr(g, "tc_test_cases", Append(g["tc_test_cases"], parameters))

CommonArguments__call__(args, f) ==
    LET g == IF ~hasattr(f, "tc_additional_arguments")
             THEN setattr(f, "tc_additional_arguments", <<>>) ELSE f
    IN  setattr(g, "tc_additional_arguments",
                Append(g["tc_additional_arguments"], <<args>>))

\* a constructor that takes zero keywords for an axis without alternatives
OptionArguments__init__lenient(alternatives, kwargs) ==
    IF Len(alternatives) > 0
    THEN [err |-> "none", options |-> alternatives]
    ELSE IF Cardinality(DOMAIN kwargs) <= 1
    THEN [err |-> "none",
          options |-> IF DOMAIN kwargs = {} THEN <<>>
                      ELSE LET name == CHOOSE k \in DOMAIN kwargs : TRUE
                           IN  [i \in 1..Len(kwargs[name]) |-> (name :> kwargs[name][i])]]
    ELSE [err |-> "ValueError", options |-> <<>>]

\* OptionArguments.__init__: the alternatives, or one alternative per value of
\* the single keyword, or ValueError
OptionArguments__init__(alternatives, kwargs) ==
    IF Len(alternatives) > 0
    THEN [err |-> "none", options |-> alternatives]
    ELSE IF Cardinality(DOMAIN kwargs) = 1
    THEN LET name == CHOOSE k \in DOMAIN kwargs : TRUE
             values == kwargs[name]
         IN  [err |-> "none",
              options |-> [i \in 1..Len(values) |-> (name :> values[i])]]
    ELSE [err |-> "ValueError", options |-> <<>>]

OptionArguments__call__(options, f) ==
    LET g == IF ~hasattr(f, "tc_additional_arguments")
             THEN setattr(f, "tc_additional_arguments", <<>>) ELSE f
    IN  setattr(g, "tc_additional_arguments",
                Append(g["tc_additional_arguments"], options))

(***************************************************************************)
(* The materializer                                                        *)
(***************************************************************************)
\* the function object "def new_function(*arg)" before @wraps
NewFunctionObject == FunctionObject("new_function", None)

\* functools.wraps: __name__, __doc__ and the entries of __dict__ of the
\* wrapped function are copied onto the wrapper
wraps(wrapped, wrapper) == update(wrapper, wrapped)

_create_function_from_testcase(test_case, test_function, name, doc, tags) ==
    LET positionals == test_case["__positionals"]
        kwargs == delattr(test_case, "__positionals")
        wrapped == wraps(test_function, NewFunctionObject)
        named == setattr(wrapped, "__name__", name)
        old_doc == IF Truthy(named["__doc__"])
                   THEN " (" \o named["__doc__"] \o ")" ELSE ""
        documented == setattr(named, "__doc", doc \o old_doc)
        tagged == update(documented, [tag \in tags |-> TRUE])
    IN  [attrs |-> tagged, positionals |-> positionals, test_case |-> kwargs]

\* calling a unit: the invocation of the implementation it makes
new_function_runner_last(unit, arg) ==
    [args |-> unit.positionals \o arg, kwargs |-> unit.test_case]

new_function(unit, arg) ==
    [args |-> arg \o unit.positionals, kwargs |-> unit.test_case]

mark_not_test_skipped(test_function) == test_function

\* test_function.__test__ = False, after the loop
mark_not_test(test_function) == setattr(test_function, "__test__", FALSE)

_create_functions_from_testcases(test_function, test_cases, description, tags, locals) ==
    LET nb == Len(test_cases)
        marked == setattr(test_function, "__test__", TRUE)
        name(index) == custom_name(description, index)
        unit(index) ==
            _create_function_from_testcase(
                test_cases[index + 1], marked, name(index),
                custom_doc(description, nb, index), tags)
        names == list([i \in 1..nb |-> name(i - 1)])
        units == list([i \in 1..nb |-> unit(i - 1)])
        RECURSIVE loop(_, _)
        loop(scope, index) ==
            IF index = nb THEN scope
            ELSE loop(setattr(scope, names[index + 1], units[index + 1]),
                      index + 1)
    IN  [function |-> mark_not_test(marked),
         frame_locals |-> loop(locals, 0),
         names |-> names,
         units |-> units]

TestExpander__call__(description, tags, f, locals) ==
    LET has_args == hasattr(f, "tc_additional_arguments")
        additional_arguments ==
            IF has_args THEN f["tc_additional_arguments"] ELSE <<>>
        f1 == IF has_args THEN delattr(f, "tc_additional_arguments") ELSE f
        has_cases == hasattr(f1, "tc_test_cases")
        original_test_cases ==
            IF has_cases THEN list(reversed(f1["tc_test_cases"]))
            ELSE << ("__positionals" :> <<>>) >>
        f2 == IF has_cases THEN delattr(f1, "tc_test_cases") ELSE f1
        arg_groups == <<original_test_cases>> \o additional_arguments
        combos == list(product(arg_groups))
        augmented_test_cases ==
            list([i \in 1..Len(combos) |-> merge_dicts(combos[i])])
        created == _create_functions_from_testcases(
                       f2, augmented_test_cases, description, tags, locals)
    IN  [function |-> created.function,
         frame_locals |-> created.frame_locals,
         names |-> created.names,
         units |-> created.units,
         product |-> combos]

(***************************************************************************)
(* Inputs                                                                  *)
(***************************************************************************)
\* tc(...) declarations: [args, kwargs]
TcCalls ==
    { [args |-> <<11, 12>>, kwargs |-> EmptyDict],
      [args |-> <<13>>, kwargs |-> ("val" :> 14) @@ ("opt" :> 15)] }

\* options(...) declarations: [alternatives, kwargs]
OptionCalls ==
    { [alternatives |-> <<>>, kwargs |-> ("val" :> <<21, 22>>)],
      [alternatives |-> << ("opt" :> 23), ("opt" :> 24) @@ ("val" :> 25) >>,
       kwargs |-> EmptyDict],
      [alternatives |-> <<>>, kwargs |-> EmptyDict],
      [alternatives |-> <<>>,
       kwargs |-> ("val" :> <<21, 22>>) @@ ("opt" :> <<23>>)] }

\* common(...) declarations: kwargs
CommonCalls == { ("val" :> 31) }

\* test(desc, tags): "a b", "test_a_b" and "x-+"
Descriptions ==
    { <<"a", " ", "b">>,
      <<"t", "e", "s", "t", "_", "a", "_", "b">>,
      <<"x", "-", "+">> }

TagLists == { {"slow"} }

\* the implementation's own doc string
Docs == { "checks it" }

\* positionals a runner may supply
RunnerArgs == { <<>>, <<1>> }

(***************************************************************************)
(* State machine                                                           *)
(***************************************************************************)
NoError == [err |-> "none", alternatives |-> <<>>, kwargs |-> EmptyDict]

NoLayers == [cases |-> <<>>, axes |-> <<>>]

NoBatch ==
    [desc |-> <<>>, tags |-> {}, cases |-> <<>>, axes |-> <<>>,
     product |-> <<>>, names |-> <<>>, units |-> <<>>, before |-> {},
     previous |-> <<>>]

Init ==
    /\ function \in {FunctionObject("_", doc) : doc \in Docs}
    /\ frame_locals = EmptyDict
    /\ declared = NoLayers
    /\ last = NoBatch
    /\ nexp = 0
    /\ nlayers = 0
    /\ raised = NoError

\* @tc(*args, **kwargs)
TestCases(call) ==
    /\ raised.err = "none"
    /\ nexp < MaxExpansions
    /\ nlayers < MaxLayers
    /\ \E parameters \in {TestCases__init__(call.args, call.kwargs)} :
           /\ function' = TestCases__call__(parameters, function)
           /\ declared' = [declared EXCEPT !.cases = Append(@, parameters)]
    /\ nlayers' = nlayers + 1
    /\ UNCHANGED <<frame_locals, last, nexp, raised>>

\* @common(**kwargs)
CommonArguments(kwargs) ==
    /\ raised.err = "none"
    /\ nexp < MaxExpansions
    /\ nlayers < MaxLayers
    /\ function' = CommonArguments__call__(kwargs, function)
    /\ declared' = [declared EXCEPT !.axes = Append(@, <<kwargs>>)]
    /\ nlayers' = nlayers + 1
    /\ UNCHANGED <<frame_locals, last, nexp, raised>>

\* @options(*alternatives, **kwargs): the constructor may raise, and then the
\* decorator is never applied
OptionArguments(call) ==
    /\ raised.err = "none"
    /\ nexp < MaxExpansions
    /\ \E self \in {OptionArguments__init__(call.alternatives, call.kwargs)} :
           IF self.err # "none"
           THEN /\ raised' = [err |-> self.err,
                              alternatives |-> call.alternatives,
                              kwargs |-> call.kwargs]
                /\ UNCHANGED <<function, declared, nlayers>>
           ELSE /\ nlayers < MaxLayers
                /\ function' = OptionArguments__call__(self.options, function)
                /\ declared' = [declared EXCEPT !.axes = Append(@, self.options)]
                /\ nlayers' = nlayers + 1
                /\ UNCHANGED raised
    /\ UNCHANGED <<frame_locals, last, nexp>>

\* @test(desc, tags)
TestExpander(desc, tags) ==
    /\ raised.err = "none"
    /\ nexp < MaxExpansions
    /\ \E r \in {TestExpander__call__(desc, tags, function, frame_locals)} :
           /\ function' = r.function
           /\ frame_locals' = r.frame_locals
           /\ last' = [desc |-> desc, tags |-> tags,
                       cases |-> declared.cases, axes |-> declared.axes,
                       product |-> r.product, names |-> r.names,
                       units |-> r.units, before |-> DOMAIN frame_locals,
                       previous |-> last.desc]
    /\ declared' = NoLayers
    /\ nexp' = nexp + 1
    /\ UNCHANGED <<nlayers, raised>>

Next ==
    \/ \E call \in TcCalls : TestCases(call)
    \/ \E kwargs \in CommonCalls : CommonArguments(kwargs)
    \/ \E call \in OptionCalls : OptionArguments(call)
    \/ \E desc \in Descriptions, tags \in TagLists : TestExpander(desc, tags)

Spec == Init /\ [][Next]_vars

(***************************************************************************)
(* What a batch was declared with, read from the history alone             *)
(***************************************************************************)
\* the batch's units, as a range of indices
UnitIndices(b) == 1..Len(b.units)

\* the case declarations in their top-to-bottom textual order (decorators are
\* applied bottom-up), or the single implicit case
DeclaredCases(b) ==
    IF Len(b.cases) = 0 THEN << ("__positionals" :> <<>>) >>
    ELSE [i \in 1..Len(b.cases) |-> b.cases[Len(b.cases) + 1 - i]]

\* <<C, A1, ..., An>>
Sizes(b) ==
    <<Len(DeclaredCases(b))>> \o [j \in 1..Len(b.axes) |-> Len(b.axes[j])]

RECURSIVE Times(_)
Times(sizes) == IF sizes = <<>> THEN 1 ELSE Head(sizes) * Times(Tail(sizes))

\* the element of group j (1 = the cases, j + 1 = axis j) that the unit at
\* position i takes when the last group varies fastest
PlaceOf(b, i, j) ==
    LET sizes == Sizes(b)
    IN  (((i - 1) \div Times(SubSeq(sizes, j + 1, Len(sizes)))) % sizes[j]) + 1

ExpectedCombo(b, i) ==
    <<DeclaredCases(b)[PlaceOf(b, i, 1)]>>
        \o [j \in 1..Len(b.axes) |-> b.axes[j][PlaceOf(b, i, j + 1)]]

NamedValues(d) == [k \in DOMAIN d \ {"__positionals"} |-> d[k]]

NamesOf(b) == {b.names[i] : i \in 1..Len(b.names)}

(***************************************************************************)
(* Claims                                                                  *)
(***************************************************************************)

\* C1: one expansion of C case declarations (1 when none) and axes of sizes
\* A1..An publishes exactly C * A1 * ... * An units into the scope, under
\* pairwise distinct generated names.
C1_UnitCountAndDistinctNames ==
    nexp > 0 =>
        LET n == Times(Sizes(last))
        IN  /\ Len(last.units) = n
            /\ Len(last.names) = n
            /\ Cardinality(NamesOf(last)) = n
            /\ \A i \in 1..n :
                /\ last.names[i] \in DOMAIN frame_locals
                /\ frame_locals[last.names[i]] = last.units[i]
                /\ last.units[i].attrs["__name__"] = last.names[i]

C1_Witness ==
    /\ nexp > 0
    /\ Len(last.cases) = 2
    /\ Len(last.axes) = 1
    /\ Len(last.axes[1]) = 2
    /\ Len(last.units) = 4

\* C2 (as stated): whenever the case and an axis alternative of a resolved
\* case both give a keyword, the resolved case carries that alternative's
\* value.
C2_AxisAlternativeWins ==
    \A i \in UnitIndices(last) :
        \A j \in 2..Len(last.product[i]) :
            \A k \in (DOMAIN last.product[i][1] \cap DOMAIN last.product[i][j])
                        \ {"__positionals"} :
                last.units[i].test_case[k] = last.product[i][j][k]

\* C2 (amended): whenever the case and one or more axis alternatives of a
\* resolved case give a keyword, the resolved case carries the value of the
\* alternative of the last axis layer that gives it, never the case's.
C2_LastAxisAlternativeWins ==
    \A i \in UnitIndices(last) :
        \A j \in 2..Len(last.product[i]) :
            \A k \in (DOMAIN last.product[i][1] \cap DOMAIN last.product[i][j])
                        \ {"__positionals"} :
                (\A l \in (j + 1)..Len(last.product[i]) :
                        k \notin DOMAIN last.product[i][l])
                    => last.units[i].test_case[k] = last.product[i][j][k]

C2_Witness ==
    /\ nexp > 0
    /\ \E i \in UnitIndices(last) :
        /\ Len(last.product[i]) = 3
        /\ "val" \in DOMAIN last.product[i][1]
        /\ "val" \in DOMAIN last.product[i][2]
        /\ "val" \in DOMAIN last.product[i][3]
        /\ last.product[i][2]["val"] # last.product[i][3]["val"]
        /\ last.units[i].test_case["val"] # last.product[i][1]["val"]

\* C3: a unit called with runner positionals R invokes the implementation with
\* R followed by its case's positionals in declared order, and with the
\* merged named values (without "__positionals") as keywords; with no case
\* and no axis declared, the single unit passes exactly R and no keyword.
C3_UnitInvocation ==
    nexp > 0 =>
        /\ \A i \in UnitIndices(last) : \A R \in RunnerArgs :
            LET call == new_function(last.units[i], R)
                case == DeclaredCases(last)[PlaceOf(last, i, 1)]
            IN  /\ call.args = R \o case["__positionals"]
                /\ DOMAIN call.kwargs =
                       UNION {DOMAIN last.product[i][j] :
                                  j \in 1..Len(last.product[i])}
                           \ {"__positionals"}
                /\ \A k \in DOMAIN call.kwargs :
                       call.kwargs[k] = merge_dicts(last.product[i])[k]
        /\ (Len(last.cases) = 0 /\ Len(last.axes) = 0) =>
            /\ Len(last.units) = 1
            /\ \A R \in RunnerArgs :
                /\ new_function(last.units[1], R).args = R
                /\ DOMAIN new_function(last.units[1], R).kwargs = {}

C3_Witness ==
    /\ nexp > 0
    /\ \E i \in UnitIndices(last) :
        /\ last.units[i].positionals = <<11, 12>>
        /\ DOMAIN last.units[i].test_case # {}
        /\ new_function(last.units[i], <<1>>).args = <<1, 11, 12>>

\* C4: the case stack is reversed exactly once: units are indexed with the
\* cases in top-to-bottom textual order, the case varying slowest; two cases
\* c1 (above) and c2 with one axis a1, a2 give (c1,a1), (c1,a2), (c2,a1),
\* (c2,a2).
C4_CasesInTextualOrderSlowest ==
    nexp > 0 =>
        /\ \A i \in UnitIndices(last) :
            LET case == DeclaredCases(last)[PlaceOf(last, i, 1)]
            IN  /\ last.product[i][1] = case
                /\ last.units[i].positionals = case["__positionals"]
        /\ (Len(last.cases) = 2 /\ Len(last.axes) = 1 /\ Len(last.axes[1]) = 2) =>
            LET c1 == last.cases[2]
                c2 == last.cases[1]
                a1 == last.axes[1][1]
                a2 == last.axes[1][2]
            IN  last.product = << <<c1, a1>>, <<c1, a2>>, <<c2, a1>>, <<c2, a2>> >>

C4_Witness ==
    /\ nexp > 0
    /\ Len(last.cases) = 2
    /\ last.cases[1] # last.cases[2]
    /\ Len(last.axes) = 1
    /\ Len(last.axes[1]) = 2
    /\ last.units[1].positionals # last.units[3].positionals

\* the alternative of axis j in the unit at position i
AlternativeOf(b, i, j) == b.product[i][j + 1]

\* between consecutive units the alternative of axis j changes, unless the
\* axis has wrapped around from its last alternative to its first
ChangesEveryUnit(b, j) ==
    \A i \in 1..(Len(b.units) - 1) :
        \/ AlternativeOf(b, i, j) # AlternativeOf(b, i + 1, j)
        \/ /\ AlternativeOf(b, i, j) = b.axes[j][Len(b.axes[j])]
           /\ AlternativeOf(b, i + 1, j) = b.axes[j][1]

\* C5 (as stated): with two or more axes, the first entry of
\* tc_additional_arguments varies fastest: consecutive units differ in its
\* alternative unless it has wrapped around.
C5_FirstAxisFastest ==
    (nexp > 0 /\ Len(last.axes) >= 2) => ChangesEveryUnit(last, 1)

\* C5 (amended): with two or more axes, the last entry of
\* tc_additional_arguments varies fastest: consecutive units differ in its
\* alternative unless it has wrapped around.
C5_LastAxisFastest ==
    (nexp > 0 /\ Len(last.axes) >= 2) =>
        /\ ChangesEveryUnit(last, Len(last.axes))
        /\ \A i \in UnitIndices(last) :
            AlternativeOf(last, i, Len(last.axes)) =
                last.axes[Len(last.axes)][PlaceOf(last, i, Len(last.axes) + 1)]

C5_Witness ==
    /\ nexp > 0
    /\ Len(last.axes) = 2
    /\ Len(last.axes[1]) = 2
    /\ Len(last.axes[2]) = 2
    /\ last.axes[1] # last.axes[2]
    /\ Len(last.units) >= 4

\* C6: after a completed expansion both layer stacks are absent from the
\* function, so the function holds exactly the layers declared since the last
\* expansion, and the units of an expansion are built from exactly those.
C6_StacksClearedBetweenGroups ==
    /\ hasattr(function, "tc_test_cases") <=> Len(declared.cases) > 0
    /\ hasattr(function, "tc_test_cases") =>
           function["tc_test_cases"] = declared.cases
    /\ hasattr(function, "tc_additional_arguments") <=> Len(declared.axes) > 0
    /\ hasattr(function, "tc_additional_arguments") =>
           function["tc_additional_arguments"] = declared.axes
    /\ nexp > 0 =>
        /\ Len(last.units) = Times(Sizes(last))
        /\ \A i \in UnitIndices(last) :
            /\ last.product[i] = ExpectedCombo(last, i)
            /\ last.units[i].positionals = ExpectedCombo(last, i)[1]["__positionals"]
            /\ last.units[i].test_case = NamedValues(merge_dicts(ExpectedCombo(last, i)))

C6_Witness ==
    /\ nexp = 2
    /\ Len(last.cases) = 1
    /\ Len(last.axes) = 1
    /\ \E name \in DOMAIN frame_locals \ NamesOf(last) :
        /\ frame_locals[name].positionals # <<>>
        /\ frame_locals[name].positionals # last.units[1].positionals
    /\ ~hasattr(function, "tc_test_cases")
    /\ ~hasattr(function, "tc_additional_arguments")

\* C7: two consecutive expansions of one implementation into the same scope,
\* under any two (here: two different) descriptions, publish disjoint names:
\* the scope holds every unit of both batches and no key written by the first
\* is overwritten.
C7_BatchesNeverOverlap ==
    (nexp > 1 /\ last.previous # last.desc) =>
        /\ NamesOf(last) \cap last.before = {}
        /\ Cardinality(DOMAIN frame_locals) =
               Cardinality(last.before) + Len(last.units)

\* C8: options(...) with no positional alternative and zero, or two or more,
\* keywords raises ValueError at construction: the function's layer stacks and
\* the scope are unchanged.
C8_InvalidAxisRaises ==
    [][\A call \in OptionCalls :
        (/\ Len(call.alternatives) = 0
         /\ Cardinality(DOMAIN call.kwargs) # 1
         /\ OptionArguments(call))
            => /\ raised'.err = "ValueError"
               /\ function' = function
               /\ frame_locals' = frame_locals]_vars

C8_Witness ==
    /\ raised.err = "ValueError"
    /\ Len(raised.alternatives) = 0
    /\ Cardinality(DOMAIN raised.kwargs) = 2
    /\ hasattr(function, "tc_test_cases")
    /\ nexp > 0

\* C9: between decorator calls the implementation's __test__ is never true,
\* after an expansion it is false, and every published unit has it true.
C9_TestFlag ==
    /\ hasattr(function, "__test__") => function["__test__"] = FALSE
    /\ nexp > 0 => hasattr(function, "__test__")
    /\ \A name \in DOMAIN frame_locals :
        /\ hasattr(frame_locals[name].attrs, "__test__")
        /\ frame_locals[name].attrs["__test__"] = TRUE

C9_Witness ==
    /\ nexp = 2
    /\ Len(last.units) > 0
    /\ Cardinality(DOMAIN frame_locals) > Len(last.units)
    /\ function["__test__"] = FALSE

\* C10: every unit's __doc__ is the generated description (description,
\* index/total, and the implementation's own doc string in parentheses when
\* it has one).
C10_UnitDocIsGenerated ==
    nexp > 0 =>
        \A i \in UnitIndices(last) :
            last.units[i].attrs["__doc__"] =
                custom_doc(last.desc, Len(last.units), i - 1)
                    \o (IF Truthy(function["__doc__"])
                        THEN " (" \o function["__doc__"] \o ")" ELSE "")

====
